---- MODULE Spec2Model ----
(***************************************************************************)
(* The praw multiprocess request server (praw/multiprocess.py): a          *)
(* threading TCP server whose per-connection handler decodes one call      *)
(* envelope, dispatches it to do_request / do_evict / do_clear_cache and   *)
(* writes one pickled result back.  do_request is the HTTP send wrapped    *)
(* in DefaultHandler.rate_limit wrapped in DefaultHandler.with_cache.      *)
(* praw/handlers.py (DefaultHandler) is not part of the source tree at     *)
(* hand; the steps of with_cache, rate_limit, evict and clear_cache follow *)
(* the written design.                                                     *)
(***************************************************************************)
EXTENDS Integers, Sequences, FiniteSets, TLC

\* ------------------------------------------------------------------ bounds
\* connections the listener accepts in one run
MaxConns == 2
\* the minimum spacing (_rate_delay) between two calls to one domain
MinInterval == 1
\* handle_error calls of one classification run
MaxErrs == 3

Conns == 1..MaxConns

\* ------------------------------------------------------------------ inputs
URLs == {"http://x/a", "http://y/a"}
DomainOf(url) == IF url = "http://x/a" THEN "x" ELSE "y"
Peers == {"127.0.0.1", "10.0.0.2"}
NoUrl == "-"

\* A connection's inbound byte stream: a pickled envelope, bytes that are no
\* pickle (invalid load key), or a stream that ends before the pickle does.
Env(stream, method, url, post) ==
    [stream |-> stream, method |-> method, url |-> url, post |-> post]
NoEnv == Env("none", "<missing>", NoUrl, FALSE)

\* _cache_key: key[0] is the URL, key[1][1] the body-bearing flag
Key(e) == <<e.url, e.post>>
\* request.method of the descriptor: praw posts exactly when there is a body
Verb(e) == IF e.post THEN "POST" ELSE "GET"

\* ------------------------------------------------------------------ values
Val(kind, type, url, post, n) ==
    [kind |-> kind, type |-> type, url |-> url, post |-> post, n |-> n]
NoVal == Val("unset", "-", NoUrl, FALSE, 0)
None == Val("none", "-", NoUrl, FALSE, 0)
\* the response that http.send returned to worker n for the key
Response(key, n) == Val("response", "-", key[1], key[2], n)
Error(type) == Val("error", type, NoUrl, FALSE, 0)

VARIABLES
    listener,    \* "serving", "stopped" (shutdown done), "closed" (server_close done)
    httpOpen,    \* RequestHandler.http has not been closed
    accepted,    \* connections accepted so far: workers 1..accepted exist
    pc,          \* each worker's position
    env,         \* each worker's inbound stream
    peer,        \* each worker's client_address[0]
    depth,       \* each worker's position in the decorator stack of do_request
    ret,         \* each worker's retval, or the exception in flight
    wake,        \* each sleeping worker's time left to sleep
    out,         \* each connection's outbound stream: the results written
    ca_lock,     \* RequestHandler.ca_lock: its holder, 0 when free
    rl_lock,     \* RequestHandler.rl_lock: its holder, 0 when free
    cache,       \* RequestHandler.cache: key -> response
    last_call,   \* RequestHandler.last_call: domain -> [lock, time]
    stdout,      \* what was written to sys.stdout, in order
    stderr,      \* what was written to sys.stderr, in order
    hist,        \* history: what each worker went through
    mon,         \* history: each domain's last http.send and the least gap seen
    errs,        \* the direct handle_error calls made, each with what it did
    run          \* the call of run(): its arguments, position and steps so far

vars == <<listener, httpOpen, accepted, pc, env, peer, depth, ret, wake, out,
          ca_lock, rl_lock, cache, last_call, stdout, stderr, hist, mon, errs,
          run>>

NoHist == [hit |-> FALSE, rl |-> FALSE, dom |-> FALSE,
           rec |-> FALSE, sent |-> FALSE, late |-> FALSE, raised |-> "-",
           seen |-> {}, removed |-> {}, handler |-> "-"]

Final == {"done", "dropped", "died"}
Keys == URLs \X BOOLEAN
Domains == {DomainOf(u) : u \in URLs}
\* A domain of last_call: [lock, previous_call_time].  made is whether the
\* entry exists yet, lock the mutex's holder (0 when free).  The time is
\* kept as its age, now - previous_call_time, which is all that is read of
\* it, and an age of MinInterval stands for any age of at least that: a
\* new entry's time is the epoch, long ago.
NoEntry == [made |-> FALSE, lock |-> 0, age |-> MinInterval]
InCache(k) == cache[k] # NoVal
\* a domain's http.send history: the age of the last call and the least
\* time between two consecutive calls (both stop at MinInterval)
NoCall == [age |-> MinInterval, gap |-> MinInterval]
Min(a, b) == IF a < b THEN a ELSE b
Set(f, c, v) == [f EXCEPT ![c] = v]
\* the workers whose connection has been handled to its end
Done == {d \in Conns : pc[d] \in Final}
Mark(c, field, v) == [hist EXCEPT ![c][field] = v]

\* ------------------------------------------------------------ composition
\* do_request as the class defines it: with_cache(rate_limit(raw function))
PipelineNoRateLimit == <<"with_cache", "raw">>
PipelineSwapped == <<"rate_limit", "with_cache", "raw">>
Pipeline == <<"with_cache", "rate_limit", "raw">>

\* the DefaultHandler function each do_<method> attribute is bound to
BindingEvictIsClear(name) ==
    CASE name = "do_request" -> "pipeline"
      [] name = "do_evict" -> "clear_cache"
      [] name = "do_clear_cache" -> "clear_cache"
      [] OTHER -> "AttributeError"
Binding(name) ==
    CASE name = "do_request" -> "pipeline"
      [] name = "do_evict" -> "evict"
      [] name = "do_clear_cache" -> "clear_cache"
      [] OTHER -> "AttributeError"

\* the first position of the stage at depth k of the decorator stack
Entry(k) ==
    CASE Pipeline[k] = "with_cache" -> "wc_lookup"
      [] Pipeline[k] = "rate_limit" -> "rl_entry"
      [] OTHER -> "do_request"

\* lines 86-90: where handle goes on once the call of line 87 has returned
\* or raised r: either way r becomes retval and line 91 is next
HandleAfterNoExcept(r) == IF r.kind = "error" THEN "error" ELSE "dump"
HandleAfter(r) == "dump"

\* Where a worker continues once the stage below depth k has returned or
\* raised r: <<depth, pc>>.  with_cache stores a returned value and lets an
\* exception through; rate_limit records the call time either way; at depth
\* 0 the worker is back in handle.
RECURSIVE Unwind(_, _)
Unwind(k, r) ==
    IF k = 0 THEN <<0, HandleAfter(r)>>
    ELSE IF Pipeline[k] = "rate_limit" THEN <<k, "rl_record">>
    ELSE IF r.kind = "error" THEN Unwind(k - 1, r)
    ELSE <<k, "wc_store">>

\* c's stage at its depth returns or raises r
Return(c, r) ==
    LET to == Unwind(depth[c] - 1, r) IN
    /\ ret' = Set(ret, c, r)
    /\ depth' = Set(depth, c, to[1])
    /\ pc' = Set(pc, c, to[2])

\* c's stage calls the function it wraps
CallInner(c) ==
    /\ depth' = Set(depth, c, depth[c] + 1)
    /\ pc' = Set(pc, c, Entry(depth[c] + 1))
    /\ ret' = ret

\* ------------------------------------------------------------------ handle
\* cPickle.load(self.rfile): the exception it raises, "" when it returns
LoadError(e) ==
    CASE e.stream = "garbage" -> "UnpicklingError"
      [] e.stream = "truncated" -> "EOFError"
      [] OTHER -> ""

\* calling the bound function with **data: the TypeError of a call whose
\* arguments do not fit the function's parameters
ArgsFit(fn, e) ==
    CASE fn = "evict" -> e.url # NoUrl
      [] fn = "clear_cache" -> e.url = NoUrl
      [] OTHER -> e.url # NoUrl

\* a handle whose try begins at line 84: decoding and the pop are captured
LoadInsideTry(e) ==
    LET fn == Binding("do_" \o e.method) IN
    IF LoadError(e) # ""
    THEN <<HandleAfter(Error(LoadError(e))), 0, Error(LoadError(e)), "-">>
    ELSE IF e.method = "<missing>"
    THEN <<HandleAfter(Error("KeyError")), 0, Error("KeyError"), "-">>
    ELSE IF fn = "AttributeError"
    THEN <<HandleAfter(Error("AttributeError")), 0, Error("AttributeError"), "-">>
    ELSE IF ~ArgsFit(fn, e)
    THEN <<HandleAfter(Error("TypeError")), 0, Error("TypeError"), fn>>
    ELSE IF fn = "pipeline" THEN <<Entry(1), 1, NoVal, fn>>
    ELSE IF fn = "evict" THEN <<"ev_do", 0, NoVal, fn>>
    ELSE <<"cl_do", 0, NoVal, fn>>

\* lines 84-87: decode, pop the method, resolve do_<method> and call it.
\* Where handle stands after that, with which retval or exception, as
\* <<pc, depth, ret, handler>>: an exception of lines 84-85 leaves handle
\* ("error"), one of line 87 is inside the try.
Load(e) ==
    LET fn == Binding("do_" \o e.method) IN
    IF LoadError(e) # "" THEN <<"error", 0, Error(LoadError(e)), "-">>
    ELSE IF e.method = "<missing>" THEN <<"error", 0, Error("KeyError"), "-">>
    ELSE IF fn = "AttributeError"
    THEN <<HandleAfter(Error("AttributeError")), 0, Error("AttributeError"), "-">>
    ELSE IF ~ArgsFit(fn, e)
    THEN <<HandleAfter(Error("TypeError")), 0, Error("TypeError"), fn>>
    ELSE IF fn = "pipeline" THEN <<Entry(1), 1, NoVal, fn>>
    ELSE IF fn = "evict" THEN <<"ev_do", 0, NoVal, fn>>
    ELSE <<"cl_do", 0, NoVal, fn>>

\* lines 91-92: the one cPickle.dump of retval; handle returns and the
\* connection is shut down
DumpTwice(c) == out[c] \o <<ret[c], ret[c]>>
Dumped(c) == Append(out[c], ret[c])

Dump(c) ==
    /\ pc[c] = "dump"
    /\ out' = Set(out, c, Dumped(c))
    /\ pc' = Set(pc, c, "done")
    /\ UNCHANGED <<listener, httpOpen, accepted, env, peer, depth, ret, wake,
                   ca_lock, rl_lock, cache, last_call, stdout, stderr,
                   hist, mon, errs, run>>

\* ------------------------------------------------------------ handle_error
\* lines 28-36 on sys.exc_info(): what the call does with the exception
HandleErrorAnyErrno(type, errno) ==
    IF type = "socket.error" THEN "pass"
    ELSE IF type = "UnpicklingError" THEN "log"
    ELSE "raise"
handle_error(type, errno) ==
    IF type = "socket.error" /\ errno = 32 THEN "pass"
    ELSE IF type = "UnpicklingError" THEN "log"
    ELSE "raise"

\* line 32: the line written to sys.stderr
InvalidLine(addr) == <<"Invalid connection from ", addr, "\n">>

\* the worker thread's except clause calls handle_error; an exception it
\* re-raises ends the thread, otherwise the request is shut down
HandleErrorStep(c) ==
    /\ pc[c] = "error"
    /\ LET act == handle_error(ret[c].type, ret[c].n) IN
        /\ stderr' = IF act = "log" THEN Append(stderr, InvalidLine(peer[c]))
                     ELSE stderr
        /\ pc' = Set(pc, c, IF act = "raise" THEN "died" ELSE "dropped")
    /\ UNCHANGED <<listener, httpOpen, accepted, env, peer, depth, ret, wake,
                   out, ca_lock, rl_lock, cache, last_call, stdout,
                   hist, mon, errs, run>>

\* ---------------------------------------------------------------- with_cache
\* cache_hit_callback (lines 66-71): the text written to sys.stdout
HitLineSwapped(key) ==
    <<"HIT ", IF key[2] THEN "GET" ELSE "POST", " ", key[1], "\n">>
cache_hit_callback(key) ==
    <<"HIT ", IF key[2] THEN "POST" ELSE "GET", " ", key[1], "\n">>

\* a lookup that keeps ca_lock on a miss, across the wrapped call
WcLookupKeepsLock(c) ==
    /\ pc[c] = "wc_lookup"
    /\ ca_lock = 0
    /\ IF InCache(Key(env[c]))
       THEN /\ stdout' = Append(stdout, cache_hit_callback(Key(env[c])))
            /\ hist' = Mark(c, "hit", TRUE)
            /\ Return(c, cache[Key(env[c])])
            /\ UNCHANGED ca_lock
       ELSE /\ CallInner(c)
            /\ ca_lock' = c
            /\ UNCHANGED <<stdout, hist>>
    /\ UNCHANGED <<listener, httpOpen, accepted, env, peer, wake, out,
                   rl_lock, cache, last_call, stderr, mon, errs, run>>

\* with cls.ca_lock: look the key up.  A hit reports itself and returns the
\* cached value, a miss goes on to the wrapped function.  The critical
\* section never blocks: it is one step, taken when the lock is free.
WcLookup(c) ==
    /\ pc[c] = "wc_lookup"
    /\ ca_lock = 0
    /\ IF InCache(Key(env[c]))
       THEN /\ stdout' = Append(stdout, cache_hit_callback(Key(env[c])))
            /\ hist' = Mark(c, "hit", TRUE)
            /\ Return(c, cache[Key(env[c])])
       ELSE /\ CallInner(c)
            /\ UNCHANGED <<stdout, hist>>
    /\ UNCHANGED <<listener, httpOpen, accepted, env, peer, wake, out, ca_lock,
                   rl_lock, cache, last_call, stderr, mon, errs, run>>

\* a store that leaves an entry that is already there: first write wins
WcStoreFirstWins(c) ==
    /\ pc[c] = "wc_store"
    /\ ca_lock = 0
    /\ cache' = IF InCache(Key(env[c])) THEN cache
                ELSE [cache EXCEPT ![Key(env[c])] = ret[c]]
    /\ Return(c, ret[c])
    /\ UNCHANGED <<listener, httpOpen, accepted, env, peer, wake, out, ca_lock,
                   rl_lock, last_call, stdout, stderr, hist,
                   mon, errs, run>>

\* with cls.ca_lock: store the response at the key, overwriting
WcStore(c) ==
    /\ pc[c] = "wc_store"
    /\ ca_lock = 0
    /\ cache' = [cache EXCEPT ![Key(env[c])] = ret[c]]
    /\ Return(c, ret[c])
    /\ UNCHANGED <<listener, httpOpen, accepted, env, peer, wake, out, ca_lock,
                   rl_lock, last_call, stdout, stderr, hist,
                   mon, errs, run>>

\* ---------------------------------------------------------------- rate_limit
\* cls.rl_lock held for the get-or-create of the domain's entry only: the
\* critical section never blocks, it is one step taken when the lock is free
RlEntry(c) ==
    /\ pc[c] = "rl_entry"
    /\ rl_lock = 0
    /\ LET d == DomainOf(env[c].url) IN
        last_call' = [last_call EXCEPT ![d].made = TRUE]
    /\ pc' = Set(pc, c, "dom_acquire")
    /\ hist' = Mark(c, "rl", TRUE)
    /\ UNCHANGED <<listener, httpOpen, accepted, env, peer, depth, ret, wake,
                   out, ca_lock, rl_lock, cache, stdout, stderr, mon, errs, run>>

\* one mutex for all the domains instead of one for each
DomAcquireOneMutex(c) ==
    /\ pc[c] = "dom_acquire"
    /\ LET d == DomainOf(env[c].url)
           elapsed == last_call[d].age IN
        /\ \A x \in Domains : last_call[x].lock = 0
        /\ last_call' = [last_call EXCEPT ![d].lock = c]
        /\ IF elapsed < MinInterval
           THEN /\ wake' = Set(wake, c, MinInterval - elapsed)
                /\ pc' = Set(pc, c, "sleep")
                /\ hist' = Mark(c, "dom", TRUE)
                /\ UNCHANGED <<depth, ret>>
           ELSE /\ CallInner(c)
                /\ hist' = Mark(c, "dom", TRUE)
                /\ UNCHANGED wake
    /\ UNCHANGED <<listener, httpOpen, accepted, env, peer, out, ca_lock,
                   rl_lock, cache, stdout, stderr, mon, errs, run>>

\* take the domain's mutex; elapsed = now - last_call_time decides the wait:
\* when it is less than the interval, sleep for the rest of the interval
DomAcquire(c) ==
    /\ pc[c] = "dom_acquire"
    /\ LET d == DomainOf(env[c].url)
           elapsed == last_call[d].age IN
        /\ last_call[d].lock = 0
        /\ last_call' = [last_call EXCEPT ![d].lock = c]
        /\ IF elapsed < MinInterval
           THEN /\ wake' = Set(wake, c, MinInterval - elapsed)
                /\ pc' = Set(pc, c, "sleep")
                /\ hist' = Mark(c, "dom", TRUE)
                /\ UNCHANGED <<depth, ret>>
           ELSE /\ CallInner(c)
                /\ hist' = Mark(c, "dom", TRUE)
                /\ UNCHANGED wake
    /\ UNCHANGED <<listener, httpOpen, accepted, env, peer, out, ca_lock,
                   rl_lock, cache, stdout, stderr, mon, errs, run>>

\* the sleep is over
Wake(c) ==
    /\ pc[c] = "sleep"
    /\ wake[c] = 0
    /\ CallInner(c)
    /\ UNCHANGED <<listener, httpOpen, accepted, env, peer, wake, out, ca_lock,
                   rl_lock, cache, last_call, stdout, stderr, hist, mon, errs, run>>

\* a record that leaves the domain's mutex held when the call raised
RlRecordKeepsMutexOnError(c) ==
    /\ pc[c] = "rl_record"
    /\ LET d == DomainOf(env[c].url) IN
        last_call' = IF ret[c].kind = "error"
                     THEN [last_call EXCEPT ![d].age = 0]
                     ELSE [last_call EXCEPT ![d].age = 0, ![d].lock = 0]
    /\ hist' = Mark(c, "rec", TRUE)
    /\ Return(c, ret[c])
    /\ UNCHANGED <<listener, httpOpen, accepted, env, peer, wake, out, ca_lock,
                   rl_lock, cache, stdout, stderr, mon, errs, run>>

\* the wrapped call has returned or raised: last_call_time = now, release
\* the domain's mutex, and pass the outcome on
RlRecord(c) ==
    /\ pc[c] = "rl_record"
    /\ LET d == DomainOf(env[c].url) IN
        last_call' = [last_call EXCEPT ![d].age = 0, ![d].lock = 0]
    /\ hist' = Mark(c, "rec", TRUE)
    /\ Return(c, ret[c])
    /\ UNCHANGED <<listener, httpOpen, accepted, env, peer, wake, out, ca_lock,
                   rl_lock, cache, stdout, stderr, mon, errs, run>>

\* ---------------------------------------------------------------- do_request
\* line 77: '<method> <url>' on sys.stdout, no line end
RequestLine(e) == <<Verb(e), " ", e.url>>

\* lines 77-80: report the request and call http.send
do_request(c) ==
    /\ pc[c] = "do_request"
    /\ stdout' = Append(stdout, RequestLine(env[c]))
    /\ hist' = Mark(c, "sent", TRUE)
    /\ LET d == DomainOf(env[c].url) IN
        mon' = [mon EXCEPT ![d] =
                  [age |-> 0, gap |-> Min(mon[d].gap, mon[d].age)]]
    /\ pc' = Set(pc, c, "send")
    /\ UNCHANGED <<listener, httpOpen, accepted, env, peer, depth, ret, wake,
                   out, ca_lock, rl_lock, cache, last_call, stderr,
                   errs, run>>

\* lines 79-80: self.http.send comes back with a response or raises a
\* connect/read/timeout failure.  Nothing on the way to the call looks at
\* whether server_close has closed the session.
SendOutcomes(c) == {Response(Key(env[c]), c), Error("ConnectionError")}

SendReturn(c, r) ==
    /\ pc[c] = "send"
    /\ r \in SendOutcomes(c)
    /\ Return(c, r)
    /\ hist' = [hist EXCEPT ![c].late = (listener = "closed"),
                            ![c].raised = r.type]
    /\ UNCHANGED <<listener, httpOpen, accepted, env, peer, wake, out, ca_lock,
                   rl_lock, cache, last_call, stdout, stderr, mon, errs, run>>

\* ------------------------------------------------------- evict, clear_cache
\* an evict that removes the entry of the body-less request only
EvictGetOnly(c) ==
    /\ pc[c] = "ev_do"
    /\ ca_lock = 0
    /\ cache' = [cache EXCEPT ![<<env[c].url, FALSE>>] = NoVal]
    /\ ret' = Set(ret, c, None)
    /\ pc' = Set(pc, c, HandleAfter(None))
    /\ hist' = Mark(c, "removed",
                    {k \in Keys : k = <<env[c].url, FALSE>> /\ InCache(k)})
    /\ UNCHANGED <<listener, httpOpen, accepted, env, peer, depth, wake, out,
                   ca_lock, rl_lock, last_call, stdout, stderr, mon,
                   errs, run>>

\* with cls.ca_lock: remove every entry whose key has the URL
Evict(c) ==
    /\ pc[c] = "ev_do"
    /\ ca_lock = 0
    /\ cache' = [k \in Keys |-> IF k[1] = env[c].url THEN NoVal ELSE cache[k]]
    /\ ret' = Set(ret, c, None)
    /\ pc' = Set(pc, c, HandleAfter(None))
    /\ hist' = Mark(c, "removed", {k \in Keys : k[1] = env[c].url /\ InCache(k)})
    /\ UNCHANGED <<listener, httpOpen, accepted, env, peer, depth, wake, out,
                   ca_lock, rl_lock, last_call, stdout, stderr, mon,
                   errs, run>>

\* with cls.ca_lock: replace the cache by an empty one
ClearCache(c) ==
    /\ pc[c] = "cl_do"
    /\ ca_lock = 0
    /\ cache' = [k \in Keys |-> NoVal]
    /\ ret' = Set(ret, c, None)
    /\ pc' = Set(pc, c, HandleAfter(None))
    /\ UNCHANGED <<listener, httpOpen, accepted, env, peer, depth, wake, out,
                   ca_lock, rl_lock, last_call, stdout, stderr, hist, mon,
                   errs, run>>

\* ------------------------------------------------------------------ listener
\* run's defaults (line 95) and the defaults of its options (lines 110, 114)
DefaultAddress == "localhost"
DefaultPort == 10101
\* a parameter or an option that is not given
NoAddress == ""
NoPort == 0

\* A call of run: its parameters, the command line's -a and -p (NoAddress
\* and NoPort when absent), the position in run, the address the server
\* listens on, the steps of the shutdown taken so far, and what it
\* returned.
Run(address, port, return_objects, addr_opt, port_opt) ==
    [pc |-> "start", address |-> address, port |-> port,
     return_objects |-> return_objects, addr_opt |-> addr_opt,
     port_opt |-> port_opt, bound |-> <<NoAddress, NoPort>>,
     daemon |-> FALSE, steps |-> <<>>, returned |-> "-"]
\* the run(return_objects=True) of the integration tests, once it returned
Embedded ==
    [Run(DefaultAddress, DefaultPort, TRUE, NoAddress, NoPort)
        EXCEPT !.pc = "returned", !.bound = <<DefaultAddress, DefaultPort>>,
               !.returned = "server, server_thread"]

Init ==
    /\ listener = "serving"
    /\ httpOpen = TRUE
    /\ accepted = 0
    /\ pc = [c \in Conns |-> "idle"]
    /\ env = [c \in Conns |-> NoEnv]
    /\ peer = [c \in Conns |-> "-"]
    /\ depth = [c \in Conns |-> 0]
    /\ ret = [c \in Conns |-> NoVal]
    /\ wake = [c \in Conns |-> 0]
    /\ out = [c \in Conns |-> <<>>]
    /\ ca_lock = 0
    /\ rl_lock = 0
    /\ cache = [k \in Keys |-> NoVal]
    /\ last_call = [d \in Domains |-> NoEntry]
    /\ stdout = <<>>
    /\ stderr = <<>>
    /\ hist = [c \in Conns |-> NoHist]
    /\ mon = [d \in Domains |-> NoCall]
    /\ errs = <<>>
    /\ run = Embedded

\* an accept loop that goes on after shutdown and server_close
AcceptOnClosedSocket(e, a) ==
    /\ listener \in {"serving", "stopped", "closed"}
    /\ accepted < MaxConns
    /\ LET c == accepted + 1
           to == Load(e) IN
        /\ accepted' = c
        /\ env' = Set(env, c, e)
        /\ peer' = Set(peer, c, a)
        /\ pc' = Set(pc, c, to[1])
        /\ depth' = Set(depth, c, to[2])
        /\ ret' = Set(ret, c, to[3])
        /\ hist' = [hist EXCEPT ![c].seen = Done,
                                ![c].handler = to[4],
                                ![c].raised = IF to[1] = "error" THEN "-"
                                              ELSE to[3].type]
    /\ UNCHANGED <<listener, httpOpen, wake, out, ca_lock, rl_lock, cache,
                   last_call, stdout, stderr, mon, errs, run>>

\* serve_forever accepts a connection and starts its worker thread, which
\* reads the envelope and enters the handler: all of it local to the worker
Accept(e, a) ==
    /\ listener = "serving"
    /\ accepted < MaxConns
    /\ LET c == accepted + 1
           to == Load(e) IN
        /\ accepted' = c
        /\ env' = Set(env, c, e)
        /\ peer' = Set(peer, c, a)
        /\ pc' = Set(pc, c, to[1])
        /\ depth' = Set(depth, c, to[2])
        /\ ret' = Set(ret, c, to[3])
        /\ hist' = [hist EXCEPT ![c].seen = Done,
                                ![c].handler = to[4],
                                ![c].raised = IF to[1] = "error" THEN "-"
                                              ELSE to[3].type]
    /\ UNCHANGED <<listener, httpOpen, wake, out, ca_lock, rl_lock, cache,
                   last_call, stdout, stderr, mon, errs, run>>

\* server.shutdown(): serve_forever leaves its loop
Shutdown ==
    /\ listener = "serving"
    /\ listener' = "stopped"
    /\ UNCHANGED <<httpOpen, accepted, pc, env, peer, depth, ret, wake, out,
                   ca_lock, rl_lock, cache, last_call, stdout, stderr,
                   hist, mon, errs, run>>

\* lines 42-44: close the listening socket, then the requests Session
server_close ==
    /\ listener = "stopped"
    /\ listener' = "closed"
    /\ httpOpen' = FALSE
    /\ UNCHANGED <<accepted, pc, env, peer, depth, ret, wake, out, ca_lock,
                   rl_lock, cache, last_call, stdout, stderr, hist, mon, errs, run>>

\* One unit of time passes: every recorded time grows older and every
\* sleep shorter.  Time that changes none of them is not observable.
Older(a) == Min(a + 1, MinInterval)
Tick ==
    /\ \/ \E d \in Domains : last_call[d].age < MinInterval
       \/ \E d \in Domains : mon[d].age < MinInterval
       \/ \E c \in Conns : pc[c] = "sleep" /\ wake[c] > 0
    /\ last_call' = [d \in Domains |->
                       [last_call[d] EXCEPT !.age = Older(last_call[d].age)]]
    /\ mon' = [d \in Domains |-> [mon[d] EXCEPT !.age = Older(mon[d].age)]]
    /\ wake' = [c \in Conns |-> IF wake[c] > 0 THEN wake[c] - 1 ELSE 0]
    /\ UNCHANGED <<listener, httpOpen, accepted, pc, env, peer, depth, ret,
                   out, ca_lock, rl_lock, cache, stdout,
                   stderr, hist, errs, run>>

\* ----------------------------------------------------------- specifications
CacheSteps(c) == WcLookup(c) \/ WcStore(c)
RateSteps(c) == RlEntry(c) \/ DomAcquire(c) \/ Wake(c) \/ RlRecord(c)
SendSteps(c) == do_request(c) \/ \E r \in SendOutcomes(c) : SendReturn(c, r)
AdminSteps(c) == Evict(c) \/ ClearCache(c)
RequestSteps(c) == Dump(c) \/ CacheSteps(c) \/ RateSteps(c) \/ SendSteps(c)

Local == {"127.0.0.1"}
Req(u, p) == Env("ok", "request", u, p)

\* concurrent requests over two domains and two keys of one domain
RateInputs == {Req("http://x/a", FALSE), Req("http://x/a", TRUE),
               Req("http://y/a", FALSE)}
NextRate ==
    \/ \E e \in RateInputs, a \in Local : Accept(e, a)
    \/ \E c \in Conns : RequestSteps(c)
    \/ Tick
SpecRate == Init /\ [][NextRate]_vars

\* requests, evictions and clears of the cache
CacheInputs == {Req("http://x/a", TRUE), Req("http://y/a", FALSE),
                Env("ok", "evict", "http://x/a", FALSE),
                Env("ok", "clear_cache", NoUrl, FALSE)}
NextCache ==
    \/ \E e \in CacheInputs, a \in Local : Accept(e, a)
    \/ \E c \in Conns : RequestSteps(c) \/ AdminSteps(c)
    \/ Tick
SpecCache == Init /\ [][NextCache]_vars

\* Every kind of connection, well-formed or not.  handle_error alone reads
\* the peer's address, so only the streams that reach it vary the peer.
ConnInputs ==
    ({Req("http://x/a", FALSE), Env("ok", "evict", "http://x/a", FALSE),
      Env("ok", "clear_cache", NoUrl, FALSE), Env("ok", "bogus", NoUrl, FALSE),
      Env("ok", "<missing>", NoUrl, FALSE)} \X Local)
        \cup ({Env("garbage", "<missing>", NoUrl, FALSE),
               Env("truncated", "<missing>", NoUrl, FALSE)} \X Peers)
NextConn ==
    \/ \E i \in ConnInputs : Accept(i[1], i[2])
    \/ \E c \in Conns : RequestSteps(c) \/ AdminSteps(c) \/ HandleErrorStep(c)
    \/ Tick
Spec == Init /\ [][NextConn]_vars

\* The same with fair scheduling: a worker thread that can take a step
\* takes one in the end, http.send comes back in the end, and time passes.
Fairness ==
    /\ \A c \in Conns : WF_vars(RequestSteps(c) \/ AdminSteps(c))
    /\ WF_vars(Tick)
LiveInputs == {Req("http://x/a", FALSE),
               Env("ok", "evict", "http://x/a", FALSE),
               Env("ok", "clear_cache", NoUrl, FALSE)}
NextLive ==
    \/ \E e \in LiveInputs, a \in Local : Accept(e, a)
    \/ \E c \in Conns : RequestSteps(c) \/ AdminSteps(c)
    \/ Tick
SpecLive == Init /\ [][NextLive]_vars /\ Fairness

\* Evictions on a server that has served before: the cache holds any set
\* of responses, each stored by a connection that has ended (its n is 0).
WarmCaches ==
    {[k \in Keys |-> IF k \in ks THEN Response(k, 0) ELSE NoVal] :
        ks \in SUBSET Keys}
InitWarm ==
    /\ listener = "serving"
    /\ httpOpen = TRUE
    /\ accepted = 0
    /\ pc = [c \in Conns |-> "idle"]
    /\ env = [c \in Conns |-> NoEnv]
    /\ peer = [c \in Conns |-> "-"]
    /\ depth = [c \in Conns |-> 0]
    /\ ret = [c \in Conns |-> NoVal]
    /\ wake = [c \in Conns |-> 0]
    /\ out = [c \in Conns |-> <<>>]
    /\ ca_lock = 0
    /\ rl_lock = 0
    /\ cache \in WarmCaches
    /\ last_call = [d \in Domains |-> NoEntry]
    /\ stdout = <<>>
    /\ stderr = <<>>
    /\ hist = [c \in Conns |-> NoHist]
    /\ mon = [d \in Domains |-> NoCall]
    /\ errs = <<>>
    /\ run = Embedded
EvictInputs == {Env("ok", "evict", u, FALSE) : u \in URLs}
                  \cup {Req("http://x/a", FALSE)}
NextEvict ==
    \/ \E e \in EvictInputs, a \in Local : Accept(e, a)
    \/ \E c \in Conns : RequestSteps(c) \/ Evict(c)
    \/ Tick
SpecEvict == InitWarm /\ [][NextEvict]_vars

\* requests in flight while the server is shut down and closed
StopInputs == {Req("http://x/a", FALSE)}
NextStop ==
    \/ \E e \in StopInputs, a \in Local : Accept(e, a)
    \/ \E c \in Conns : RequestSteps(c)
    \/ Shutdown
    \/ server_close
    \/ Tick
SpecStop == Init /\ [][NextStop]_vars

\* handle_error called directly, as the unit test calls it, with each kind
\* of sys.exc_info(): <<type, args[0]>>; 32 is EPIPE, 104 ECONNRESET
ExcTypes == {"socket.error", "UnpicklingError", "EOFError", "KeyError",
             "Exception"}
Errnos == {32, 104}

HandleErrorCall(type, errno, addr) ==
    /\ Len(errs) < MaxErrs
    /\ LET act == handle_error(type, errno) IN
        /\ errs' = Append(errs,
              [type |-> type, errno |-> errno, addr |-> addr, act |-> act,
               raised |-> IF act = "raise" THEN <<type, errno>> ELSE <<>>,
               logged |-> Len(stderr),
               wrote |-> IF act = "log" THEN 1 ELSE 0])
        /\ stderr' = IF act = "log" THEN Append(stderr, InvalidLine(addr))
                     ELSE stderr
    /\ UNCHANGED <<listener, httpOpen, accepted, pc, env, peer, depth, ret,
                   wake, out, ca_lock, rl_lock, cache, last_call, stdout,
                   hist, mon, run>>

NextErr == \E t \in ExcTypes, n \in Errnos, a \in Peers : HandleErrorCall(t, n, a)
SpecErr == Init /\ [][NextErr]_vars

\* ----------------------------------------------------------------------- run
\* everything but run and the listener, left alone by the steps of run
workers == <<httpOpen, accepted, pc, env, peer, depth, ret, wake, out, ca_lock,
             rl_lock, cache, last_call, stderr, hist, mon, errs>>

\* lines 109-117: the value of an option is the command line's, or the
\* option's default when the command line does not give it
OptionValue(given, default, none) == IF given = none THEN default ELSE given
\* lines 118-119: `parameter or option`, the parameter unless it is falsy
Chosen(param, option, none) == IF param # none THEN param ELSE option

ListeningLine(bound) ==
    <<"Listening on ", bound[1], " port ", ToString(bound[2]), "\n">>
PromptLine == <<"CTRL-C to shutdown server.\n">>
GoodbyeLine == <<"Goodbye!\n">>

\* lines 109-120: parse the options, choose address and port, and construct
\* the server, which binds and listens
RunParse ==
    /\ run.pc = "start"
    /\ LET addr == OptionValue(run.addr_opt, DefaultAddress, NoAddress)
           port == OptionValue(run.port_opt, DefaultPort, NoPort) IN
        run' = [run EXCEPT !.pc = "announce",
                           !.bound = <<Chosen(run.address, addr, NoAddress),
                                       Chosen(run.port, port, NoPort)>>]
    /\ listener' = "bound"
    /\ UNCHANGED <<workers, stdout>>

\* lines 121-122
RunAnnounce ==
    /\ run.pc = "announce"
    /\ stdout' = Append(stdout, ListeningLine(run.bound))
    /\ run' = [run EXCEPT !.pc = "spawn"]
    /\ UNCHANGED <<workers, listener>>

\* lines 123-125: the serving thread, a daemon unless the caller gets it
RunSpawn ==
    /\ run.pc = "spawn"
    /\ listener' = "serving"
    /\ run' = [run EXCEPT !.pc = "started", !.daemon = ~run.return_objects]
    /\ UNCHANGED <<workers, stdout>>

\* lines 126-127
RunReturn ==
    /\ run.pc = "started"
    /\ run.return_objects
    /\ run' = [run EXCEPT !.pc = "returned", !.returned = "server, server_thread"]
    /\ UNCHANGED <<workers, listener, stdout>>

\* line 129: the try is entered
RunTry ==
    /\ run.pc = "started"
    /\ ~run.return_objects
    /\ run' = [run EXCEPT !.pc = "try"]
    /\ UNCHANGED <<workers, listener, stdout>>

\* lines 130-133: the prompt, then the loop that nothing but an exception ends
RunPrompt ==
    /\ run.pc = "try"
    /\ stdout' = Append(stdout, PromptLine)
    /\ run' = [run EXCEPT !.pc = "loop"]
    /\ UNCHANGED <<workers, listener>>

\* A KeyboardInterrupt is raised in the main thread.  Inside the try it is
\* caught (line 134); before the try it leaves run.
Interrupt ==
    /\ run.pc \in {"start", "announce", "spawn", "started", "try", "loop"}
    /\ run' = [run EXCEPT !.pc = IF run.pc \in {"try", "loop"} THEN "except"
                                 ELSE "interrupted"]
    /\ UNCHANGED <<workers, listener, stdout>>

\* a shutdown that goes on to the join, leaving out server_close
RunShutdownThenJoin ==
    /\ run.pc = "except"
    /\ listener' = "stopped"
    /\ run' = [run EXCEPT !.pc = "join", !.steps = Append(@, "shutdown")]
    /\ UNCHANGED <<workers, stdout>>

\* line 135: server.shutdown(), serve_forever leaves its loop
RunShutdown ==
    /\ run.pc = "except"
    /\ listener' = "stopped"
    /\ run' = [run EXCEPT !.pc = "close", !.steps = Append(@, "shutdown")]
    /\ UNCHANGED <<workers, stdout>>

\* line 136: server.server_close(), lines 42-44
RunClose ==
    /\ run.pc = "close"
    /\ listener' = "closed"
    /\ httpOpen' = FALSE
    /\ run' = [run EXCEPT !.pc = "join", !.steps = Append(@, "server_close")]
    /\ UNCHANGED <<accepted, pc, env, peer, depth, ret, wake, out, ca_lock,
                   rl_lock, cache, last_call, stdout, stderr, hist, mon, errs>>

\* line 137: server_thread.join() returns once serve_forever has returned
RunJoin ==
    /\ run.pc = "join"
    /\ listener # "serving"
    /\ run' = [run EXCEPT !.pc = "bye", !.steps = Append(@, "join")]
    /\ UNCHANGED <<workers, listener, stdout>>

\* lines 138-139
RunGoodbye ==
    /\ run.pc = "bye"
    /\ stdout' = Append(stdout, GoodbyeLine)
    /\ run' = [run EXCEPT !.pc = "exited", !.steps = Append(@, "Goodbye!")]
    /\ UNCHANGED <<workers, listener>>

\* run called with each kind of parameters and command line, no server yet
Addresses == {DefaultAddress, "0.0.0.0", NoAddress}
Ports == {DefaultPort, 8080, NoPort}
AddrOptions == {NoAddress, "10.0.0.1"}
PortOptions == {NoPort, 9999}
InitRun ==
    /\ listener = "none"
    /\ httpOpen = TRUE
    /\ accepted = 0
    /\ pc = [c \in Conns |-> "idle"]
    /\ env = [c \in Conns |-> NoEnv]
    /\ peer = [c \in Conns |-> "-"]
    /\ depth = [c \in Conns |-> 0]
    /\ ret = [c \in Conns |-> NoVal]
    /\ wake = [c \in Conns |-> 0]
    /\ out = [c \in Conns |-> <<>>]
    /\ ca_lock = 0
    /\ rl_lock = 0
    /\ cache = [k \in Keys |-> NoVal]
    /\ last_call = [d \in Domains |-> NoEntry]
    /\ stdout = <<>>
    /\ stderr = <<>>
    /\ hist = [c \in Conns |-> NoHist]
    /\ mon = [d \in Domains |-> NoCall]
    /\ errs = <<>>
    /\ run \in {Run(a, p, ro, ao, po) :
                   a \in Addresses, p \in Ports, ro \in BOOLEAN,
                   ao \in AddrOptions, po \in PortOptions}
NextRun ==
    \/ RunParse
    \/ RunAnnounce
    \/ RunSpawn
    \/ RunReturn
    \/ RunTry
    \/ RunPrompt
    \/ Interrupt
    \/ RunShutdown
    \/ RunClose
    \/ RunJoin
    \/ RunGoodbye
SpecRun == InitRun /\ [][NextRun]_vars

\* ------------------------------------------------------------------ claims
Registered(c) ==
    /\ env[c].stream = "ok"
    /\ env[c].method \in {"request", "evict", "clear_cache"}
IsRequest(c) == env[c].stream = "ok" /\ env[c].method = "request"
IsAdmin(c) == env[c].stream = "ok" /\ env[c].method \in {"evict", "clear_cache"}

\* C1: a connection whose envelope decodes and names a registered operation
\* never leaves handle through an exception and never has more than one
\* Result on its outbound stream; once its handling has ended the stream
\* holds exactly one Result, the handler's return value (a response for the
\* request's own key or the cached one, None for evict and clear_cache) or
\* the error the handler raised; and a connection that has its Result is done.
C1_OneResult ==
    \A c \in Conns : Registered(c) =>
        /\ pc[c] \notin {"error", "dropped", "died"}
        /\ Len(out[c]) <= 1
        /\ Len(out[c]) = 1 => pc[c] = "done"
        /\ pc[c] = "done" =>
            /\ Len(out[c]) = 1
            /\ out[c][1] = ret[c]
            /\ \/ /\ out[c][1].kind = "error"
                  /\ out[c][1].type = hist[c].raised
               \/ /\ IsAdmin(c)
                  /\ out[c][1] = None
               \/ /\ IsRequest(c)
                  /\ out[c][1].kind = "response"
                  /\ <<out[c][1].url, out[c][1].post>> = Key(env[c])

\* two connections served, one with its handler's value, one with the error
\* its handler raised
C1_Witness ==
    \E c, d \in Conns :
        /\ Registered(c) /\ pc[c] = "done" /\ out[c][1].kind = "response"
        /\ Registered(d) /\ pc[d] = "done" /\ out[d][1].kind = "error"

\* C2: once an operation has raised an error (the HTTP send failing inside
\* do_request included), the worker stays inside handle, never reaching
\* handle_error, and when its handling has ended the outbound stream holds
\* that very error, type and arguments, as the connection's one Result.
C2_ErrorIsResult ==
    \A c \in Conns : hist[c].raised # "-" =>
        /\ pc[c] \notin {"error", "dropped", "died"}
        /\ ret[c] = Error(hist[c].raised)
        /\ pc[c] \in Final => out[c] = <<Error(hist[c].raised)>>

\* a request whose HTTP send failed has been answered
C2_Witness ==
    \E c \in Conns :
        /\ IsRequest(c)
        /\ hist[c].sent
        /\ hist[c].raised = "ConnectionError"
        /\ pc[c] = "done"

\* the positions at which a worker holds its domain's mutex
Holding == {"sleep", "do_request", "send", "rl_record"}
\* the host of a URL, read off the URL itself
Host(url) == IF url \in {"http://x/a"} THEN "x" ELSE "y"
SameHost(c, d) == Host(env[c].url) = Host(env[d].url)

\* C3: no two workers are inside http.send for URLs of one domain at the
\* same time, and for every domain the least time between two consecutive
\* http.send calls is at least the minimum interval.
C3_SerializedAndSpaced ==
    /\ \A c, d \in Conns :
           c # d /\ pc[c] = "send" /\ pc[d] = "send" => ~SameHost(c, d)
    /\ \A d \in Domains : mon[d].gap >= MinInterval

\* two workers have both called http.send for one domain, the second after
\* waiting for the first to release the domain's mutex
C3_Witness ==
    \E c, d \in Conns :
        /\ c # d /\ SameHost(c, d)
        /\ hist[c].sent /\ pc[c] = "done"
        /\ hist[d].sent /\ pc[d] = "done"
        /\ d \notin hist[c].seen /\ c \notin hist[d].seen

\* C4: a request that found its key in the cache has its cached response as
\* its value and has gone through nothing else: it has not taken the map
\* lock, taken a domain mutex, slept, set a last-call time or called
\* http.send, whatever the other workers hold at the time.
C4_HitShortCircuits ==
    \A c \in Conns : hist[c].hit =>
        /\ ~hist[c].rl /\ ~hist[c].dom /\ ~hist[c].rec /\ ~hist[c].sent
        /\ pc[c] \in {"dump", "done"}
        /\ \A d \in Domains : last_call[d].lock # c
        /\ ret[c].kind = "response"
        /\ <<ret[c].url, ret[c].post>> = Key(env[c])

\* a request was served from the cache
C4_Witness ==
    \E c \in Conns : hist[c].hit /\ pc[c] = "done" /\ out[c] = <<ret[c]>>

Url(c) == env[c].url
\* an evict of the URL, or a clear_cache
Covers(e, u) ==
    /\ env[e].stream = "ok"
    /\ \/ env[e].method = "evict" /\ env[e].url = u
       \/ env[e].method = "clear_cache"
\* the HIT writes on sys.stdout for a key
HitWrites(k) ==
    {i \in DOMAIN stdout :
        stdout[i] = <<"HIT ", IF k[2] THEN "POST" ELSE "GET", " ", k[1], "\n">>}
AnyHitWrites(u) ==
    {i \in DOMAIN stdout : Len(stdout[i]) = 5 /\ stdout[i][4] = u}

Evicted(e) == IsAdmin(e) /\ pc[e] \in {"dump", "done"}

\* C6 as the specification states it: once an evict of a URL, or a
\* clear_cache, has returned, and for as long as no further request for
\* the URL has been received, the cache holds no entry for the URL, so
\* that the next request for it is a miss.
C6_NextIsMiss ==
    \A e \in Conns : \A k \in Keys :
        ( /\ Evicted(e) /\ Covers(e, k[1])
          /\ \A q \in Conns :
                IsRequest(q) /\ Url(q) = k[1] => e \notin hist[q].seen )
        => ~InCache(k)

\* C6, amended: the same, provided every other request for the URL had
\* been answered when the evict or clear_cache was received, or was
\* received after the next request was answered.  (a) While every request
\* for the URL received so far had been answered when an evict of it or a
\* clear_cache was received, the cache holds no entry for the URL once
\* the call has returned: evicting the only cached URL leaves the cache
\* empty.  (b) A request for the URL received after the call returned
\* misses and calls http.send again.
C6_NextIsMissUnlessOverlapped ==
    /\ \A e \in Conns : \A k \in Keys :
        ( /\ Evicted(e) /\ Covers(e, k[1])
          /\ \A q \in Conns :
                IsRequest(q) /\ Url(q) = k[1] => q \in hist[e].seen )
        => ~InCache(k)
    /\ \A e, r \in Conns :
        ( /\ Evicted(e) /\ IsRequest(r) /\ Covers(e, Url(r))
          /\ e \in hist[r].seen
          /\ \A q \in Conns \ {r} :
                IsRequest(q) /\ Url(q) = Url(r)
                    => q \in hist[e].seen \/ r \in hist[q].seen )
        => /\ ~hist[r].hit
           /\ pc[r] = "done" => hist[r].sent

\* a request is answered and its response cached, and the URL is evicted
\* after that: the cache is empty again
C6_Witness ==
    \E e, q \in Conns :
        /\ IsRequest(q) /\ out[q] = <<Response(Key(env[q]), q)>>
        /\ hist[q].sent /\ ~hist[q].hit
        /\ q \in hist[e].seen
        /\ Evicted(e) /\ env[e].method = "evict" /\ Url(e) = Url(q)
        /\ out[e] = <<None>>
        /\ \A k \in Keys : ~InCache(k)

Undecodable(c) == env[c].stream \in {"garbage", "truncated"}
InvalidLines(addr) ==
    {i \in DOMAIN stderr :
        stderr[i] = <<"Invalid connection from ", addr, "\n">>}

\* C8: every connection whose stream does not decode is dropped with no
\* Result written and with one line 'Invalid connection from <peer>' on
\* sys.stderr (as many such lines for a peer as it made such connections),
\* the listener keeps serving, and every connection for a registered
\* operation accepted after it is answered with one Result.
C8_UndecodableIsLogged ==
    /\ listener = "serving"
    /\ \A c \in Conns :
        Undecodable(c) /\ pc[c] \in Final =>
            /\ pc[c] = "dropped"
            /\ out[c] = <<>>
            /\ Cardinality(InvalidLines(peer[c])) =
                  Cardinality({d \in Conns : /\ Undecodable(d) /\ pc[d] \in Final
                                             /\ peer[d] = peer[c]})
            /\ \A d \in Conns :
                  Registered(d) /\ c \in hist[d].seen /\ pc[d] \in Final =>
                      pc[d] = "done" /\ Len(out[d]) = 1

C10_ClosedExecutorFails ==
    /\ listener = "closed" =>
          /\ ~httpOpen
          /\ \A e \in StopInputs, a \in Local : ~ENABLED Accept(e, a)
    /\ \A c \in Conns :
          hist[c].late => ret[c].kind = "error" /\ hist[c].raised # "-"

ShutdownOrder == <<"shutdown", "server_close", "join", "Goodbye!">>
Written(line) == \E i \in DOMAIN stdout : stdout[i] = line

\* C11: in foreground mode run writes 'Listening on <address> port <port>'
\* and then 'CTRL-C to shutdown server.' and stays in its loop, where
\* nothing but an interrupt moves it; the steps it takes after the
\* interrupt are, in this order and with nothing else, shutdown (no more
\* accepting), server_close (listening socket and session closed), the join
\* of the serving thread and only then 'Goodbye!'.  With return_objects
\* true run returns the server and the thread, still serving, takes none of
\* these steps and writes no 'Goodbye!'.
C11_OrderedShutdown ==
    /\ \E n \in 0..4 : run.steps = SubSeq(ShutdownOrder, 1, n)
    /\ Len(run.steps) < 1 => listener # "stopped"
    /\ Len(run.steps) < 2 => listener # "closed" /\ httpOpen
    /\ Len(run.steps) >= 2 => listener = "closed" /\ ~httpOpen
    /\ Written(<<"Goodbye!\n">>) <=> run.pc = "exited"
    /\ run.pc = "exited" => run.steps = ShutdownOrder
    /\ run.pc = "loop" =>
          /\ stdout = << <<"Listening on ", run.bound[1], " port ",
                          ToString(run.bound[2]), "\n">>,
                        <<"CTRL-C to shutdown server.\n">> >>
          /\ listener = "serving"
          /\ ~ENABLED (RunParse \/ RunAnnounce \/ RunSpawn \/ RunReturn \/ RunTry
                          \/ RunPrompt \/ RunShutdown \/ RunClose \/ RunJoin
                          \/ RunGoodbye)
    /\ run.return_objects =>
          /\ run.steps = <<>>
          /\ ~Written(<<"CTRL-C to shutdown server.\n">>)
          /\ run.pc \notin {"try", "loop", "except", "close", "join", "bye"}
    /\ run.pc = "returned" =>
          /\ run.return_objects
          /\ run.returned = "server, server_thread"
          /\ listener = "serving" /\ httpOpen

\* a foreground run was interrupted in its loop and has said goodbye
C11_Witness ==
    /\ run.pc = "exited"
    /\ ~run.return_objects
    /\ Len(stdout) = 3
    /\ stdout[2] = <<"CTRL-C to shutdown server.\n">>
    /\ stdout[3] = <<"Goodbye!\n">>
    /\ listener = "closed"

\* C13: once run has constructed its server, the address is the command
\* line's -a whenever -a is given, and the port the command line's -p
\* whenever -p is given, whatever the parameters are.
C13_OptionsFirst ==
    run.pc \notin {"start", "interrupted"} =>
        /\ run.addr_opt # NoAddress => run.bound[1] = run.addr_opt
        /\ run.port_opt # NoPort => run.bound[2] = run.port_opt

\* a worker that has touched none of the shared state
Untouched(c) ==
    /\ ~hist[c].hit /\ ~hist[c].rl /\ ~hist[c].dom /\ ~hist[c].rec
    /\ ~hist[c].sent
    /\ hist[c].handler = "-"
    /\ \A k \in Keys : cache[k].n # c
    /\ \A d \in Domains : last_call[d].lock # c
Unknown(c) ==
    env[c].stream = "ok" /\ env[c].method \notin
        {"request", "evict", "clear_cache", "<missing>"}

\* C12: a connection whose envelope decodes and names an operation that is
\* not registered is answered with an error of a kind of its own, which is
\* neither the AttributeError of a failed attribute lookup nor any error a
\* registered handler raises; no handler has run for it and it has touched
\* neither the cache nor the rate-limit table.
C12_UnknownOperation ==
    \A c \in Conns : Unknown(c) /\ pc[c] = "done" =>
        /\ Len(out[c]) = 1
        /\ out[c][1].kind = "error"
        /\ out[c][1].type \notin {"AttributeError", "TypeError",
                                  "ConnectionError", "KeyError"}
        /\ Untouched(c)

\* C20: a connection whose stream does not decode, or whose envelope has no
\* 'method', never gets a Result and is never inside the try of handle:
\* its exception goes to handle_error, which logs an UnpicklingError and
\* re-raises anything else; no handler runs for it and it touches neither
\* the cache nor the rate-limit table.
C20_OutsideTheCapture ==
    \A c \in Conns :
        env[c].stream # "none" /\ (Undecodable(c) \/ env[c].method = "<missing>")
        => /\ out[c] = <<>>
           /\ pc[c] \in {"error", "dropped", "died"}
           /\ hist[c].raised = "-"
           /\ ret[c].kind = "error"
           /\ ret[c].type \in {"UnpicklingError", "EOFError", "KeyError"}
           /\ env[c].stream = "ok" => ret[c].type = "KeyError"
           /\ pc[c] = "dropped" => ret[c].type = "UnpicklingError"
           /\ pc[c] = "died" => ret[c].type # "UnpicklingError"
           /\ Untouched(c)

\* an envelope without 'method' ended its worker with the KeyError, and a
\* stream that was no pickle was dropped, neither with a Result
C20_Witness ==
    \E c, d \in Conns :
        /\ env[c].stream = "ok" /\ env[c].method = "<missing>"
        /\ pc[c] = "died" /\ ret[c].type = "KeyError" /\ out[c] = <<>>
        /\ env[d].stream = "garbage"
        /\ pc[d] = "dropped" /\ out[d] = <<>>

\* a request whose http.send raised
SendFailed(c) ==
    IsRequest(c) /\ hist[c].sent /\ hist[c].raised = "ConnectionError"

\* C14: when http.send raises for a request that missed the cache, the
\* exception is the request's outcome as it was raised; the request stores
\* nothing in the cache, and no error is ever a cache entry; before the
\* exception leaves rate_limit the domain's last-call time is set and the
\* domain's mutex released, so that whenever the mutex is free the
\* last-call time is no older than the last http.send, failed or not, and
\* consecutive http.send calls of the domain stay spaced by the interval.
C14_SendErrorNotCached ==
    /\ \A k \in Keys : cache[k].kind # "error"
    /\ \A c \in Conns : SendFailed(c) =>
        /\ ret[c] = Error("ConnectionError")
        /\ pc[c] \in {"rl_record", "dump", "done"}
        /\ \A k \in Keys : cache[k].n # c
        /\ pc[c] \in {"dump", "done"} =>
              /\ hist[c].rec
              /\ \A d \in Domains : last_call[d].lock # c
        /\ pc[c] = "done" => out[c] = <<Error("ConnectionError")>>
    /\ \A d \in Domains :
          /\ last_call[d].lock = 0 => last_call[d].age <= mon[d].age
          /\ mon[d].gap >= MinInterval

\* a request whose send failed has been answered with the error, and a
\* later request to the same domain has been sent and answered
C14_Witness ==
    \E c, d \in Conns :
        /\ c # d /\ SameHost(c, d)
        /\ SendFailed(c) /\ pc[c] = "done"
        /\ out[c] = <<Error("ConnectionError")>>
        /\ IsRequest(d) /\ c \in hist[d].seen
        /\ hist[d].sent /\ pc[d] = "done"
        /\ \A k \in Keys : cache[k].n # c

\* the positions between the lookup and the store of with_cache
InsideCacheMiss ==
    {"rl_entry", "dom_acquire", "sleep", "do_request", "send", "rl_record"}

\* C15: ca_lock is free in every state between two steps, so it is not
\* held by a worker that waits for a domain's mutex, sleeps, or is inside
\* http.send; hence a lookup, a store, an evict or a clear_cache that a
\* worker has come to can always be taken, whatever the other workers do.
C15_CacheLockNotHeldAcrossIO ==
    /\ ca_lock = 0
    /\ \A c \in Conns :
        /\ pc[c] \in InsideCacheMiss => ca_lock # c
        /\ pc[c] = "wc_lookup" => ENABLED WcLookup(c)
        /\ pc[c] = "wc_store" => ENABLED WcStore(c)
        /\ pc[c] = "ev_do" => ENABLED Evict(c)
        /\ pc[c] = "cl_do" => ENABLED ClearCache(c)

\* an evict or clear_cache received while a request was inside http.send
\* or asleep has been answered, the request still being there
C15_Witness ==
    \E c, e \in Conns :
        /\ c < e
        /\ IsRequest(c) /\ pc[c] \in {"sleep", "send"}
        /\ IsAdmin(e) /\ pc[e] = "done" /\ out[e] = <<None>>

\* an evict connection
IsEvict(c) == env[c].stream = "ok" /\ env[c].method = "evict"

\* C16: the step in which an evict of a URL runs leaves no cache entry
\* with that URL, for either value of the body flag, leaves every entry of
\* another URL and the whole of last_call as they are, and returns None,
\* also when the cache holds no entry with the URL, in which case the
\* cache is unchanged; the evict is answered with None, never an error.
C16_EvictFrame ==
    /\ [](\A c \in Conns : IsEvict(c) =>
            /\ pc[c] \in {"ev_do", "dump", "done"}
            /\ pc[c] = "done" => out[c] = <<None>>)
    /\ [][\A c \in Conns : IsEvict(c) /\ pc[c] = "ev_do" /\ pc'[c] # "ev_do" =>
            /\ \A k \in Keys :
                  cache'[k] = IF k[1] = env[c].url THEN NoVal ELSE cache[k]
            /\ (\A p \in BOOLEAN : cache[<<env[c].url, p>>] = NoVal)
                  => cache' = cache
            /\ last_call' = last_call
            /\ ret'[c] = None]_vars

\* an evict removed the entries of both shapes of its URL and left an
\* entry of the other URL in the cache
C16_Witness ==
    \E e \in Conns :
        /\ IsEvict(e) /\ pc[e] = "done" /\ out[e] = <<None>>
        /\ hist[e].removed = {<<Url(e), FALSE>>, <<Url(e), TRUE>>}
        /\ \E k \in Keys : k[1] # Url(e) /\ InCache(k)
        /\ \A p \in BOOLEAN : ~InCache(<<Url(e), p>>)

\* this step sets the last-call time of a domain
Recorded == \E c \in Conns : ~hist[c].rec /\ hist'[c].rec
\* this step is a step of a worker that was accepted and has not ended
InFlightStep ==
    \E c \in Conns : pc[c] \notin Final \cup {"idle"} /\ pc'[c] # pc[c]

\* C17 as the specification states it: once server_close has run, no step
\* adds or removes a cache entry or sets a domain's last-call time.
C17_NoMutationAfterClose ==
    [][listener = "closed" => cache' = cache /\ ~Recorded]_vars

\* C17, amended: once server_close has run no connection is accepted, and
\* a step that adds or removes a cache entry or sets a last-call time is a
\* step of a worker that was in flight at the close; when no worker is in
\* flight any more, the cache and the last-call times stay as they are.
C17_OnlyInFlightMutateAfterClose ==
    [][listener = "closed" =>
            /\ accepted' = accepted
            /\ listener' = "closed"
            /\ (cache' # cache \/ Recorded) => InFlightStep]_vars

\* a worker in flight at the close has set its domain's last-call time and
\* stored its response in the cache after the close
C17_Witness ==
    \E c \in Conns :
        /\ listener = "closed"
        /\ hist[c].late /\ hist[c].rec
        /\ cache[Key(env[c])] = Response(Key(env[c]), c)


\* c holds none of the three kinds of lock
HoldsNoLock(c) ==
    /\ ca_lock # c
    /\ rl_lock # c
    /\ \A d \in Domains : last_call[d].lock # c

\* C18: under fair scheduling, and with every http.send coming back, every
\* accepted request, evict or clear_cache connection ends in the end with
\* its one Result written, and a worker that has ended holds no lock:
\* neither ca_lock, nor rl_lock, nor a domain's mutex.
C18_NoDeadlock ==
    /\ [](\A c \in Conns : pc[c] \in Final => HoldsNoLock(c))
    /\ \A c \in Conns :
          (pc[c] # "idle") ~> (pc[c] = "done" /\ Len(out[c]) = 1 /\ HoldsNoLock(c))

\* two requests to one domain were in flight together, the send of one of
\* them failed, and both have been answered
C18_Witness ==
    \E c, d \in Conns :
        /\ c # d /\ IsRequest(c) /\ IsRequest(d) /\ SameHost(c, d)
        /\ c \notin hist[d].seen /\ d \notin hist[c].seen
        /\ hist[c].raised = "ConnectionError"
        /\ hist[c].rec /\ hist[d].rec
        /\ pc[c] = "done" /\ pc[d] = "done"
        /\ HoldsNoLock(c) /\ HoldsNoLock(d)

\* the request missed the cache, its http.send returned, and it is past its
\* store
Stored(c) ==
    /\ IsRequest(c) /\ ~hist[c].hit
    /\ hist[c].sent /\ hist[c].raised = "-"
    /\ pc[c] \in {"dump", "done"}
\* the step is c's lookup, and c's store
LooksUp(c) == pc[c] = "wc_lookup" /\ pc'[c] # "wc_lookup"
Stores(c) == pc[c] = "wc_store" /\ pc'[c] # "wc_store"

\* C19: requests for one key are not coalesced.  A lookup hits exactly when
\* the key is in the cache at that moment, so requests that look up before
\* any of them has stored all miss; a request that missed and whose
\* http.send returned has called http.send itself and has as its value its
\* own response, not another request's; its store overwrites whatever the
\* key held (last write wins) and touches no other key; and every cache
\* entry is the response http.send returned to a request for that key that
\* has stored it.
C19_NotCoalesced ==
    /\ [](/\ \A k \in Keys : InCache(k) =>
                \E n \in Conns :
                    /\ cache[k] = Response(k, n)
                    /\ Key(env[n]) = k /\ Stored(n)
          /\ \A c \in Conns :
                /\ IsRequest(c) /\ ~hist[c].hit /\ hist[c].raised = "-"
                /\ pc[c] \in {"dump", "done"}
                => /\ hist[c].sent
                   /\ ret[c] = Response(Key(env[c]), c)
                   /\ pc[c] = "done" => out[c] = <<ret[c]>>)
    /\ [][\A c \in Conns :
            /\ LooksUp(c) => (hist'[c].hit <=> InCache(Key(env[c])))
            /\ Stores(c) =>
                  cache' = [cache EXCEPT
                               ![Key(env[c])] = Response(Key(env[c]), c)]]_vars

\* two requests for one key both missed, both called http.send and both
\* stored: each was answered with its own response, and the cache holds the
\* response of the one that stored last
C19_Witness ==
    \E c, d \in Conns :
        /\ c # d /\ Key(env[c]) = Key(env[d])
        /\ Stored(c) /\ Stored(d)
        /\ pc[c] = "done" /\ pc[d] = "done"
        /\ out[c] = <<Response(Key(env[c]), c)>>
        /\ out[d] = <<Response(Key(env[d]), d)>>
        /\ cache[Key(env[c])] = Response(Key(env[d]), d)
        /\ mon[DomainOf(env[c].url)].gap >= MinInterval
====
